---- MODULE Spec2Model ----
(***************************************************************************)
(* gocov: instrument a package in a temporary GOPATH and run "go test".   *)
(* Model of src/gocov/main.go.                                             *)
(*                                                                         *)
(* Strings of the environment are sequences of characters (a file name    *)
(* inside a value counts as one character), so that strings.HasPrefix and *)
(* string concatenation are computed, not assumed.  File-system paths are *)
(* sequences of names below the root "/".                                  *)
(***************************************************************************)
EXTENDS Integers, Sequences, FiniteSets, TLC

VARIABLES
    \* ---- calls of putenv on their own (specification SpecEnv) ----
    env,        \* the caller's list (slice) as the caller sees it after the call
    envBefore,  \* the list the caller passed to the latest call, before the call
    ret,        \* the list the latest call returned
    key,        \* key argument
    value,      \* value argument
    calls,      \* number of calls made so far
    \* ---- one run of instrumentAndTest (specification Spec) ----
    pc,         \* position in instrumentAndTest / instrumentPackage
    fs,         \* the file system: path -> node
    orig,       \* the file system when the run started
    pkgpath,    \* the package identifier given on the command line
    environ,    \* os.Environ() of the gocov process
    cmdEnv,     \* cmd.Env handed to "go test"
    walkTodo,   \* filepath.Walk: paths still to visit, first one next
    walkErr,    \* err returned by symlinkHierarchy (TRUE = non-nil)
    files,      \* pkg.Files: member files not yet ranged over
    rc,         \* result code of instrumentAndTest (-1: not returned yet)
    trace       \* steps taken by the run, in order

vars == <<env, envBefore, ret, key, value, calls, pc, fs, orig, pkgpath,
          environ, cmdEnv, walkTodo, walkErr, files, rc, trace>>

envVars == <<env, envBefore, ret, key, value, calls>>
runVars == <<pc, fs, orig, pkgpath, environ, cmdEnv, walkTodo, walkErr,
             files, rc, trace>>

-----------------------------------------------------------------------------
(* Bounds *)

\* longest environment list given to putenv in SpecEnv
MaxEnvLen == 3
\* number of successive putenv calls with the same key and value in SpecEnv
MaxCalls == 2
\* longest process environment of a run
MaxEnviron == 2
\* largest number of leading ".." components of a package identifier
MaxUp == 3

-----------------------------------------------------------------------------
(* Strings *)

GOPATH   == <<"G", "O", "P", "A", "T", "H">>
GOCOVOUT == <<"G", "O", "C", "O", "V", "O", "U", "T">>
HOME     == <<"H", "O", "M", "E">>
Eq       == <<"=">>
Dash     == <<"-">>

\* strings.HasPrefix(s, prefix)
HasPrefix(s, prefix) ==
    /\ Len(s) >= Len(prefix)
    /\ SubSeq(s, 1, Len(prefix)) = prefix

\* the key of an entry "KEY=VALUE": the text before the first "="
RECURSIVE KeyOf(_)
KeyOf(s) ==
    IF s = <<>> \/ Head(s) = "=" THEN <<>> ELSE <<Head(s)>> \o KeyOf(Tail(s))

\* the value of an entry "KEY=VALUE": the text after the first "="
ValueOf(s) == SubSeq(s, Len(KeyOf(s)) + 2, Len(s))

SeqsUpTo(S, n) == UNION {[1..k -> S] : k \in 0..n}

-----------------------------------------------------------------------------
(* putenv, main.go 51-59 *)

\* index of the first entry the loop of putenv stops at, 0 if it stops at none
RECURSIVE FirstMatch(_, _)
FirstMatch(e, i) ==
    IF i > Len(e) THEN 0
    ELSE IF HasPrefix(e[i], GOPATH \o Eq) THEN i
    ELSE FirstMatch(e, i + 1)

\* every entry with prefix "GOPATH=" overwritten, not only the first
putenvAll(e, k, v) ==
    LET kv == k \o Eq \o v
        r  == [i \in DOMAIN e |->
                 IF HasPrefix(e[i], GOPATH \o Eq) THEN kv ELSE e[i]]
    IN  IF FirstMatch(e, 1) # 0
        THEN [env |-> r, ret |-> r]
        ELSE [env |-> e, ret |-> Append(e, kv)]

\* putenv(env, key, value): .ret is the returned slice, .env is the caller's
\* slice after the call (env[i] = ... writes through the shared array;
\* append leaves the first len(env) elements as they were)
putenv(e, k, v) ==
    LET kv == k \o Eq \o v
        i  == FirstMatch(e, 1)
    IN  IF i # 0
        THEN [env |-> [e EXCEPT ![i] = kv], ret |-> [e EXCEPT ![i] = kv]]
        ELSE [env |-> e, ret |-> Append(e, kv)]

-----------------------------------------------------------------------------
(* Paths and the file system *)

\* every file name of the model, in the lexical order filepath.Walk visits
NameOrder == <<"a.go", "b.go", "go", "gocov", "home", "lib", "n.txt",
               "pkg", "src", "sub", "tmp", "u", "x.txt">>

Dir         == [kind |-> "dir"]
File(d)     == [kind |-> "file", data |-> d]
Link(p)     == [kind |-> "link", to |-> p]

\* filepath.Clean of an absolute path: "." is dropped, ".." removes the
\* component before it, and ".." at the root stays at the root
RECURSIVE CleanOnto(_, _)
CleanOnto(base, comps) ==
    IF comps = <<>> THEN base
    ELSE IF Head(comps) = "." THEN CleanOnto(base, Tail(comps))
    ELSE IF Head(comps) = ".."
         THEN CleanOnto(IF base = <<>> THEN <<>>
                        ELSE SubSeq(base, 1, Len(base) - 1), Tail(comps))
    ELSE CleanOnto(Append(base, Head(comps)), Tail(comps))

\* filepath.Join(base, comps...) for an absolute base
Join(base, comps) == CleanOnto(<<>>, base \o comps)

\* filepath.Base
Base(p) == p[Len(p)]

\* filepath.Rel(src, path) for a path below src (as filepath.Walk passes it)
Rel(src, path) == SubSeq(path, Len(src) + 1, Len(path))

IsPrefix(p, q) == Len(p) <= Len(q) /\ SubSeq(q, 1, Len(p)) = p

Parent(p) == SubSeq(p, 1, Len(p) - 1)

Exists(f, p) == p \in DOMAIN f
IsDir(f, p)  == p \in DOMAIN f /\ f[p].kind = "dir"

\* the path as text: "/tmp/gocov"
RECURSIVE PathStr(_)
PathStr(p) == IF p = <<>> THEN <<>> ELSE <<"/", Head(p)>> \o PathStr(Tail(p))

\* f with path p holding node n
Put(f, p, n) == [q \in DOMAIN f \cup {p} |-> IF q = p THEN n ELSE f[q]]

\* f without path p
Del(f, p) == [q \in DOMAIN f \ {p} |-> f[q]]

\* the names in directory p, sorted
DirNames(f, p) == SelectSeq(NameOrder, LAMBDA n : Append(p, n) \in DOMAIN f)

\* the entries of directory p as paths, sorted by name
DirEntries(f, p) ==
    LET ns == DirNames(f, p) IN [i \in DOMAIN ns |-> Append(p, ns[i])]

\* os.MkdirAll(p) can succeed: no component of p is something else than a
\* directory
CanMkdirAll(f, p) ==
    \A k \in 0..Len(p) :
        LET q == SubSeq(p, 1, k) IN Exists(f, q) => f[q].kind = "dir"

\* os.MkdirAll(p): p and every missing parent become directories
MkdirAll(f, p) ==
    [q \in DOMAIN f \cup {SubSeq(p, 1, k) : k \in 0..Len(p)} |->
        IF q \in DOMAIN f THEN f[q] ELSE Dir]

\* only the directory itself removed, its content left behind
RemoveAllShallow(f, root) == Del(f, root)

\* os.RemoveAll(root): root and everything below it removed; links are
\* removed, not followed
RemoveAll(f, root) == [q \in {q \in DOMAIN f : ~IsPrefix(root, q)} |-> f[q]]

\* os.Remove(p) can succeed: p exists and is not a directory with entries
CanRemove(f, p) ==
    /\ Exists(f, p)
    /\ f[p].kind = "dir" => DirNames(f, p) = <<>>

-----------------------------------------------------------------------------
(* The machine the run starts on *)

\* os.TempDir()
TmpParent == <<"tmp">>
\* the directory ioutil.TempDir("", "gocov") creates
tempDir == <<"tmp", "gocov">>
\* os.Getwd()
cwd == <<"home", "u">>
\* where non-local import paths are found (GOROOT/GOPATH)
GoSrc == <<"go", "src">>
\* os.PathListSeparator
PathListSeparator == <<":">>

Src(p) == File(<<"source", p>>)

Disk ==
    LET dirs  == { <<>>, <<"tmp">>, <<"home">>, <<"home", "u">>, <<"lib">>,
                   <<"lib", "sub">>, <<"go">>, <<"go", "src">>,
                   <<"go", "src", "pkg">> }
        plain == { <<"home", "u", "a.go">>,
                   <<"lib", "a.go">>, <<"lib", "b.go">>, <<"lib", "n.txt">>,
                   <<"lib", "sub", "x.txt">>,
                   <<"go", "src", "pkg", "a.go">>,
                   <<"go", "src", "pkg", "n.txt">> }
    IN  [p \in dirs \cup plain |-> IF p \in dirs THEN Dir ELSE Src(p)]

\* k times ".."
Ups(k) == [i \in 1..k |-> ".."]

\* the package identifiers tried
PkgIds == { <<".">>, <<"pkg">>, <<"nopkg">> }
          \cup { Ups(k) \o <<"lib">> : k \in 1..MaxUp }

\* the entries a process environment is made of
EnvKeys   == {GOPATH, GOCOVOUT, HOME}
EnvValues == { <<>>, <<"/", "old">> }
EnvEntries == { k \o Eq \o v : k \in EnvKeys, v \in EnvValues }

\* number of entries of list e whose key is k
Count(e, k) == Cardinality({i \in DOMAIN e : KeyOf(e[i]) = k})

OnePerKey(e) == \A i, j \in DOMAIN e : KeyOf(e[i]) = KeyOf(e[j]) => i = j

\* process environments: the runtime keeps one entry per key
Environs == {e \in SeqsUpTo(EnvEntries, MaxEnviron) : OnePerKey(e)}

\* os.Getenv(k): "" when k is not set
Getenv(e, k) ==
    IF \E i \in DOMAIN e : KeyOf(e[i]) = k
    THEN ValueOf(e[CHOOSE i \in DOMAIN e : KeyOf(e[i]) = k])
    ELSE <<>>

-----------------------------------------------------------------------------
(* parsePackage, main.go 61-81 *)

\* build.IsLocalImport: ".", ".." or a path starting with "./" or "../"
IsLocalImport(id) == Head(id) \in {".", ".."}

\* buildpkg.Dir: build.Import(path, cwd, 0) joins a local path to cwd and
\* looks a non-local one up below the source roots
PkgDir(id) == IF IsLocalImport(id) THEN Join(cwd, id) ELSE Join(GoSrc, id)

IsGoName(n) == n \in {"a.go", "b.go"}

\* p.GoFiles, sorted
GoFiles(f, d) ==
    SelectSeq(DirNames(f, d),
              LAMBDA n : IsGoName(n) /\ f[Append(d, n)].kind = "file")

\* build.Import finds the package
ImportOk(f, id) == IsDir(f, PkgDir(id)) /\ GoFiles(f, PkgDir(id)) # <<>>

\* the keys of pkg.Files: parser.ParseDir names each file filepath.Join(dir, name)
PkgFiles(f, id) ==
    LET g == GoFiles(f, PkgDir(id)) IN {Append(PkgDir(id), g[i]) : i \in DOMAIN g}

\* cloneDir, main.go 119
CloneDir(id) == Join(tempDir, <<"src">> \o id)

-----------------------------------------------------------------------------
(* One run of instrumentAndTest *)

Ev(op, p, res) == [op |-> op, path |-> p, res |-> res]
Log(e) == trace' = Append(trace, e)

Happened(op, res) == \E i \in DOMAIN trace : trace[i].op = op /\ trace[i].res = res
HappenedAt(op, p, res) == \E i \in DOMAIN trace : trace[i] = Ev(op, p, res)

\* where a return statement of instrumentAndTest leads: the deferred
\* function of main.go 157-162 runs
AfterReturn == "cleanup"

\* "return code" after the defer statement has been executed
Return(code) == rc' = code /\ pc' = AfterReturn

\* the text written for member file p when printer.Fprint succeeds, and what
\* is left in the file when it fails
Instrumented(d) == File(<<"instrumented", d>>)
Truncated       == File(<<"incomplete">>)

\* main.go 180-187: the environment for "go test"
ComposeEnv(e) ==
    LET e1     == putenv(e, GOCOVOUT, Dash).ret
        gopath == Getenv(e, GOPATH)
    IN  IF gopath # <<>>
        THEN putenv(e1, GOPATH,
                    PathStr(tempDir) \o PathListSeparator \o gopath).ret
        ELSE putenv(e1, GOPATH, PathStr(tempDir)).ret

Init ==
    /\ env = <<>> /\ envBefore = <<>> /\ ret = <<>>
    /\ key = <<>> /\ value = <<>> /\ calls = 0
    /\ pc = "start"
    /\ fs = Disk
    /\ orig = Disk
    /\ pkgpath \in PkgIds
    /\ environ \in Environs
    /\ cmdEnv = <<>>
    /\ walkTodo = <<>>
    /\ walkErr = FALSE
    /\ files = {}
    /\ rc = -1
    /\ trace = <<>>

\* main.go 152-156: ioutil.TempDir
TempDir ==
    /\ pc = "start"
    /\ \E ok \in BOOLEAN :
        IF ok
        THEN /\ fs' = Put(fs, tempDir, Dir)
             /\ Log(Ev("TempDir", tempDir, "ok"))
             /\ pc' = "mkdir"
             /\ rc' = rc
        ELSE /\ fs' = fs
             /\ Log(Ev("TempDir", tempDir, "err"))
             /\ pc' = "done"
             /\ rc' = 1
    /\ UNCHANGED <<orig, pkgpath, environ, cmdEnv, walkTodo, walkErr, files>>
    /\ UNCHANGED envVars

\* main.go 164-168: os.Mkdir(tempDir/src)
MkdirSrc ==
    /\ pc = "mkdir"
    /\ \E ok \in BOOLEAN :
        IF ok
        THEN /\ fs' = Put(fs, Append(tempDir, "src"), Dir)
             /\ Log(Ev("Mkdir", Append(tempDir, "src"), "ok"))
             /\ pc' = "parse"
             /\ rc' = rc
        ELSE /\ fs' = fs
             /\ Log(Ev("Mkdir", Append(tempDir, "src"), "err"))
             /\ Return(1)
    /\ UNCHANGED <<orig, pkgpath, environ, cmdEnv, walkTodo, walkErr, files>>
    /\ UNCHANGED envVars

\* parsePackage followed directly by the loop over pkg.Files, the call of
\* symlinkHierarchy left out
ParsePackageNoMirror ==
    /\ pc = "parse"
    /\ \E res \in (IF ImportOk(fs, pkgpath) THEN {"ok", "parseErr"}
                                          ELSE {"importErr"}) :
        IF res = "ok"
        THEN /\ files' = PkgFiles(fs, pkgpath)
             /\ Log(Ev("parsePackage", PkgDir(pkgpath), "ok"))
             /\ pc' = "range"
             /\ rc' = rc
        ELSE /\ files' = files
             /\ Log(Ev("parsePackage", PkgDir(pkgpath), res))
             /\ Return(1)
    /\ UNCHANGED <<fs, orig, pkgpath, environ, cmdEnv, walkTodo, walkErr>>
    /\ UNCHANGED envVars

\* main.go 110-114 (and 172-176): parsePackage; on success symlinkHierarchy
\* is entered with the walk standing at buildpkg.Dir
ParsePackage ==
    /\ pc = "parse"
    /\ \E res \in (IF ImportOk(fs, pkgpath) THEN {"ok", "parseErr"}
                                          ELSE {"importErr"}) :
        IF res = "ok"
        THEN /\ files' = PkgFiles(fs, pkgpath)
             /\ walkTodo' = <<PkgDir(pkgpath)>>
             /\ Log(Ev("parsePackage", PkgDir(pkgpath), "ok"))
             /\ pc' = "walk"
             /\ rc' = rc
        ELSE /\ UNCHANGED <<files, walkTodo>>
             /\ Log(Ev("parsePackage", PkgDir(pkgpath), res))
             /\ Return(1)
    /\ UNCHANGED <<fs, orig, pkgpath, environ, cmdEnv, walkErr>>
    /\ UNCHANGED envVars

\* symlinkHierarchy returns err: main.go 120 stores it and goes on to the loop
WalkFails ==
    /\ walkErr' = TRUE
    /\ walkTodo' = <<>>
    /\ pc' = "range"

\* the walk goes on with the paths todo, or symlinkHierarchy returns nil
WalkOn(todo) ==
    /\ walkErr' = walkErr
    /\ walkTodo' = todo
    /\ pc' = IF todo = <<>> THEN "range" ELSE "walk"

\* the target computed from the file's name alone, its directory lost
TargetFlat(path) ==
    IF path = PkgDir(pkgpath) THEN CloneDir(pkgpath)
    ELSE Join(CloneDir(pkgpath), <<Base(path)>>)

\* target, main.go 89-94
Target(path) == Join(CloneDir(pkgpath), Rel(PkgDir(pkgpath), path))

\* main.go 85-87: filepath.Walk hands fn an error for the path
WalkLstatErr ==
    /\ pc = "walk"
    /\ walkTodo # <<>>
    /\ fs' = fs
    /\ Log(Ev("Lstat", Head(walkTodo), "err"))
    /\ WalkFails
    /\ UNCHANGED <<orig, pkgpath, environ, cmdEnv, files, rc>>
    /\ UNCHANGED envVars

\* main.go 95-96: a directory is visited
WalkDir ==
    /\ pc = "walk"
    /\ walkTodo # <<>>
    /\ IsDir(fs, Head(walkTodo))
    /\ LET path   == Head(walkTodo)
           target == Target(path)
       IN  \E res \in (IF CanMkdirAll(fs, target) THEN {"ok", "readdirErr"}
                                                   ELSE {}) \cup {"err"} :
            /\ fs' = IF res = "err" THEN fs ELSE MkdirAll(fs, target)
            /\ Log(Ev("MkdirAll", target, res))
            /\ IF res = "ok"
               THEN WalkOn(DirEntries(fs', path) \o Tail(walkTodo))
               ELSE WalkFails
    /\ UNCHANGED <<orig, pkgpath, environ, cmdEnv, files, rc>>
    /\ UNCHANGED envVars

\* main.go 97-104: a file is visited
WalkFile ==
    /\ pc = "walk"
    /\ walkTodo # <<>>
    /\ ~IsDir(fs, Head(walkTodo))
    /\ LET path   == Head(walkTodo)
           target == Target(path)
           can    == ~Exists(fs, target) /\ IsDir(fs, Parent(target))
       IN  \E res \in (IF can THEN {"ok"} ELSE {"exists"})
                      \cup {"unsupported", "denied"} :
            /\ fs' = IF res = "ok" THEN Put(fs, target, Link(path)) ELSE fs
            /\ Log(Ev("Symlink", target, res))
            /\ IF res = "ok" THEN WalkOn(Tail(walkTodo)) ELSE WalkFails
    /\ UNCHANGED <<orig, pkgpath, environ, cmdEnv, files, rc>>
    /\ UNCHANGED envVars

\* in.instrumentFile(f, fset): rewrites the syntax tree in memory; it can fail
instrumentFile == {"ok", "err"}

\* the sandbox path of member file f, main.go 129
SandboxPath(f) == Join(CloneDir(pkgpath), <<Base(f)>>)

\* main.go 122-147: one iteration of the loop over pkg.Files (a map: any order)
RangeFile ==
    /\ pc = "range"
    /\ files # {}
    /\ \E f \in files, inst \in instrumentFile, printOk \in BOOLEAN :
        LET sp      == SandboxPath(f)
            text    == IF printOk THEN Instrumented(orig[f].data) ELSE Truncated
            written == Put(Del(fs, sp), sp, text)
            evI     == Ev("instrumentFile", f, inst)
            evP     == Ev("Fprint", sp, IF printOk THEN "ok" ELSE "err")
        IN  \E res \in (IF inst = "err" THEN {"instrumentErr"}
                        ELSE IF CanRemove(fs, sp)
                             THEN {"removeErr", "openErr", "closeErr", "ok"}
                             ELSE {"removeErr"}) :
             CASE res = "instrumentErr" ->
                    /\ fs' = fs
                    /\ trace' = trace \o <<evI>>
                    /\ files' = files
                    /\ Return(1)
               [] res = "removeErr" ->
                    /\ fs' = fs
                    /\ trace' = trace \o <<evI, Ev("Remove", sp, "err")>>
                    /\ files' = files
                    /\ Return(1)
               [] res = "openErr" ->
                    /\ fs' = Del(fs, sp)
                    /\ trace' = trace \o <<evI, Ev("Remove", sp, "ok"),
                                           Ev("OpenFile", sp, "err")>>
                    /\ files' = files
                    /\ Return(1)
               [] res = "closeErr" ->
                    /\ fs' = written
                    /\ trace' = trace \o <<evI, Ev("Remove", sp, "ok"),
                                           Ev("OpenFile", sp, "ok"), evP,
                                           Ev("Close", sp, "err")>>
                    /\ files' = files
                    /\ Return(1)
               [] res = "ok" ->
                    /\ fs' = written
                    /\ trace' = trace \o <<evI, Ev("Remove", sp, "ok"),
                                           Ev("OpenFile", sp, "ok"), evP,
                                           Ev("Close", sp, "ok")>>
                    /\ files' = files \ {f}
                    /\ pc' = "range"
                    /\ rc' = rc
    /\ UNCHANGED <<orig, pkgpath, environ, cmdEnv, walkTodo, walkErr>>
    /\ UNCHANGED envVars

\* main.go 148 and 173: the loop is over, instrumentPackage returns nil
RangeDone ==
    /\ pc = "range"
    /\ files = {}
    /\ pc' = "test"
    /\ Log(Ev("instrumentPackage", CloneDir(pkgpath), "ok"))
    /\ UNCHANGED <<fs, orig, pkgpath, environ, cmdEnv, walkTodo, walkErr,
                   files, rc>>
    /\ UNCHANGED envVars

\* main.go 180-199: the environment is composed and "go test" is run
RunTest ==
    /\ pc = "test"
    /\ cmdEnv' = ComposeEnv(environ)
    /\ \E res \in {"ok", "startErr", "exitErr"} :
        /\ Log(Ev("go test", CloneDir(pkgpath), res))
        /\ Return(IF res = "ok" THEN 0 ELSE 1)
    /\ UNCHANGED <<fs, orig, pkgpath, environ, walkTodo, walkErr, files>>
    /\ UNCHANGED envVars

\* the deferred function turning a failed removal into a failed run
CleanupEscalates ==
    /\ pc = "cleanup"
    /\ \E ok \in BOOLEAN :
        /\ fs' = IF ok THEN RemoveAll(fs, tempDir) ELSE fs
        /\ Log(Ev("RemoveAll", tempDir, IF ok THEN "ok" ELSE "err"))
        /\ rc' = IF ok THEN rc ELSE 1
    /\ pc' = "done"
    /\ UNCHANGED <<orig, pkgpath, environ, cmdEnv, walkTodo, walkErr, files>>
    /\ UNCHANGED envVars

\* main.go 157-162: the deferred os.RemoveAll(tempDir); a failure is only
\* reported
Cleanup ==
    /\ pc = "cleanup"
    /\ \E ok \in BOOLEAN :
        /\ fs' = IF ok THEN RemoveAll(fs, tempDir) ELSE fs
        /\ Log(Ev("RemoveAll", tempDir, IF ok THEN "ok" ELSE "err"))
    /\ pc' = "done"
    /\ UNCHANGED <<orig, pkgpath, environ, cmdEnv, walkTodo, walkErr, files, rc>>
    /\ UNCHANGED envVars

Next ==
    \/ TempDir
    \/ MkdirSrc
    \/ ParsePackage
    \/ WalkLstatErr
    \/ WalkDir
    \/ WalkFile
    \/ RangeFile
    \/ RangeDone
    \/ RunTest
    \/ Cleanup

Spec == Init /\ [][Next]_vars

-----------------------------------------------------------------------------
(* putenv called on its own *)

\* the lists given to putenv
PutenvKeys   == {GOPATH, GOCOVOUT, HOME}
PutenvValues == { Dash, <<"/", "new">> }
EnvLists     == SeqsUpTo(EnvEntries, MaxEnvLen)

InitEnv ==
    /\ env \in EnvLists
    /\ envBefore = env
    /\ ret = env
    /\ key \in PutenvKeys
    /\ value \in PutenvValues
    /\ calls = 0
    /\ pc = "idle"
    /\ fs = Disk
    /\ orig = Disk
    /\ pkgpath = <<".">>
    /\ environ = <<>>
    /\ cmdEnv = <<>>
    /\ walkTodo = <<>>
    /\ walkErr = FALSE
    /\ files = {}
    /\ rc = -1
    /\ trace = <<>>

\* env = putenv(env, key, value): the first call is made on the input list,
\* every later one on the list the call before returned
CallPutenv ==
    /\ calls < MaxCalls
    /\ LET r == putenv(ret, key, value)
       IN  /\ envBefore' = ret
           /\ env' = r.env
           /\ ret' = r.ret
    /\ calls' = calls + 1
    /\ UNCHANGED <<key, value>>
    /\ UNCHANGED runVars

NextEnv == CallPutenv

SpecEnv == InitEnv /\ [][NextEnv]_vars

-----------------------------------------------------------------------------
(* Properties of putenv (SpecEnv) *)

KV == key \o Eq \o value

\* the positions of list e whose entry has key k
KeyPositions(e, k) == {i \in DOMAIN e : KeyOf(e[i]) = k}

Min(S) == CHOOSE x \in S : \A y \in S : x <= y

\* C1: for an input list with at most one entry per key, the list putenv
\* returns has exactly one entry with the key given, that entry is "K=V",
\* and the list still has at most one entry for every other key.
C1_SetsKeyExactlyOnce ==
    (calls >= 1 /\ OnePerKey(envBefore)) =>
        /\ Count(ret, key) = 1
        /\ \A i \in KeyPositions(ret, key) : ret[i] = KV
        /\ OnePerKey(ret)

\* C2: putenv is idempotent: a second call with the same key and value
\* returns the list the first call returned, and composing does not bring
\* a second entry for the key into the list.
C2_Idempotent ==
    calls >= 2 =>
        /\ ret = envBefore
        /\ Count(envBefore, key) <= 1 => Count(ret, key) <= 1

\* C3: entries are matched by the prefix "K=": with an entry for K in the
\* input, the result has the input's length, "K=V" stands where the first
\* such entry stood and the entries of other keys are unchanged in place;
\* without one, the result is the input followed by "K=V".
C3_ReplaceFirstOrAppend ==
    calls >= 1 =>
        IF KeyPositions(envBefore, key) # {}
        THEN /\ Len(ret) = Len(envBefore)
             /\ ret[Min(KeyPositions(envBefore, key))] = KV
             /\ \A i \in DOMAIN envBefore :
                    KeyOf(envBefore[i]) # key => ret[i] = envBefore[i]
        ELSE ret = Append(envBefore, KV)

Changed == {i \in DOMAIN envBefore : env[i] # envBefore[i]}

-----------------------------------------------------------------------------
(* Properties of a run (Spec) *)

HappenedOp(op) == \E i \in DOMAIN trace : trace[i].op = op

\* the entries of list e whose key is neither GOPATH nor GOCOVOUT
Others(e) == SelectSeq(e, LAMBDA s : KeyOf(s) \notin {GOPATH, GOCOVOUT})

\* the GOPATH value the test runner is to get
WantedGopath ==
    IF Getenv(environ, GOPATH) = <<>>
    THEN PathStr(tempDir)
    ELSE PathStr(tempDir) \o PathListSeparator \o Getenv(environ, GOPATH)

\* C5: the environment handed to the test runner has exactly one GOCOVOUT
\* entry, "GOCOVOUT=-", exactly one GOPATH entry with the temporary root put
\* before the old value (or alone), and every other entry of the process
\* environment unchanged.
C5_TestEnvironment ==
    HappenedOp("go test") =>
        /\ Count(cmdEnv, GOCOVOUT) = 1
        /\ \A i \in KeyPositions(cmdEnv, GOCOVOUT) :
               cmdEnv[i] = GOCOVOUT \o Eq \o Dash
        /\ Count(cmdEnv, GOPATH) = 1
        /\ \A i \in KeyPositions(cmdEnv, GOPATH) :
               cmdEnv[i] = GOPATH \o Eq \o WantedGopath
        /\ Others(cmdEnv) = Others(environ)

UnderTempDir == {p \in DOMAIN fs : IsPrefix(tempDir, p)}

\* C6: a run that created its temporary root always attempts the removal
\* before it returns, whichever step ended it and whatever the result code,
\* and when the removal succeeds nothing of the temporary root is left.
C6_TempDirRemoved ==
    (pc = "done" /\ HappenedAt("TempDir", tempDir, "ok")) =>
        /\ HappenedOp("RemoveAll")
        /\ HappenedAt("RemoveAll", tempDir, "ok") => UnderTempDir = {}

\* C6 witness: a run on a package that does not exist has returned, its
\* temporary root was created and is gone
C6_Witness ==
    /\ pc = "done"
    /\ HappenedAt("TempDir", tempDir, "ok")
    /\ HappenedAt("Mkdir", Append(tempDir, "src"), "ok")
    /\ Happened("parsePackage", "importErr")
    /\ HappenedAt("RemoveAll", tempDir, "ok")
    /\ rc = 1
    /\ UnderTempDir = {}

\* C7: when mirroring the package directory fails, the run returns a
\* non-zero result, instruments no file, does not start the test runner,
\* and removes the temporary root.
C7_MirrorFailureAborts ==
    (pc = "done" /\ walkErr) =>
        /\ rc # 0
        /\ ~HappenedOp("instrumentFile")
        /\ ~HappenedOp("go test")
        /\ HappenedAt("RemoveAll", tempDir, "ok") => UnderTempDir = {}

\* C8: when writing an instrumented file fails, instrumentPackage returns an
\* error: no further member file is processed, the result is non-zero and
\* the test runner is not started.
C8_SerializeFailureAborts ==
    \A i \in DOMAIN trace :
        (trace[i].op = "Fprint" /\ trace[i].res = "err") =>
            /\ \A j \in DOMAIN trace :
                   j > i => trace[j].op \notin {"instrumentFile", "go test",
                                                "instrumentPackage"}
            /\ pc = "done" => rc # 0

\* C9: nothing below the original package directory is created, removed
\* or rewritten by the run.
C9_OriginalUntouched ==
    \A p \in DOMAIN fs \cup DOMAIN orig :
        IsPrefix(PkgDir(pkgpath), p) =>
            /\ p \in DOMAIN fs
            /\ p \in DOMAIN orig
            /\ fs[p] = orig[p]

\* C10: when linking a file is unsupported, its content is copied to the
\* target instead and symlinkHierarchy still succeeds.
C10_CopyWhenLinkUnsupported ==
    (trace # <<>> /\ trace[Len(trace)].op = "Symlink"
                  /\ trace[Len(trace)].res = "unsupported") =>
        /\ ~walkErr
        /\ Exists(fs, trace[Len(trace)].path)
        /\ fs[trace[Len(trace)].path].kind = "file"

-----------------------------------------------------------------------------
(* Properties of the mirror and of the instrumented sandbox *)

\* the paths below root, relative to root
RelsUnder(f, root) == {Rel(root, p) : p \in {q \in DOMAIN f : IsPrefix(root, q)}}

\* symlinkHierarchy has just returned nil: the walk is over without an error
\* and the loop over pkg.Files has not started
MirrorReturnedNil ==
    /\ pc = "range"
    /\ ~walkErr
    /\ trace[Len(trace)].op \in {"MkdirAll", "Symlink"}

\* dst did not exist when symlinkHierarchy was called
DstWasAbsent ==
    /\ ~Exists(orig, CloneDir(pkgpath))
    /\ CloneDir(pkgpath) \notin {tempDir, Append(tempDir, "src")}

\* C11: after symlinkHierarchy(src, dst) returned nil on a dst that did not
\* exist, dst holds the relative paths of src and no other: a directory for
\* every directory, and for every file a link that resolves to the original
\* file with its content.
C11_MirrorEqualsSource ==
    (MirrorReturnedNil /\ DstWasAbsent) =>
        LET src == PkgDir(pkgpath)
            dst == CloneDir(pkgpath)
        IN  /\ RelsUnder(fs, dst) = RelsUnder(fs, src)
            /\ \A r \in RelsUnder(fs, src) :
                 /\ Exists(fs, dst \o r)
                 /\ IF fs[src \o r].kind = "dir"
                    THEN fs[dst \o r].kind = "dir"
                    ELSE /\ fs[dst \o r] = Link(src \o r)
                         /\ fs[fs[dst \o r].to] = orig[src \o r]

\* C11 witness: the mirror of a package with a nested file has been built
C11_Witness ==
    /\ MirrorReturnedNil
    /\ DstWasAbsent
    /\ pkgpath = <<"..", "..", "lib">>
    /\ fs[<<"tmp", "lib", "sub", "x.txt">>] = Link(<<"lib", "sub", "x.txt">>)

\* the regular files (no links, no directories) below root
PlainFilesUnder(f, root) ==
    {p \in DOMAIN f : IsPrefix(root, p) /\ f[p].kind = "file"}

DirsUnder(f, root) ==
    {Rel(root, p) : p \in {q \in DOMAIN f : IsPrefix(root, q) /\ f[q].kind = "dir"}}

\* C12: when instrumentPackage has returned nil for a package with N member
\* files, the sandbox package directory holds exactly N rewritten files, one
\* at the mirrored path of each member file; every other file and every
\* directory of the original subtree is there as mirrored, and the
\* directories are those of the mirror.
C12_SandboxAfterInstrumenting ==
    (pc = "test") =>
        LET src     == PkgDir(pkgpath)
            dst     == CloneDir(pkgpath)
            members == PkgFiles(orig, pkgpath)
        IN  /\ \A f \in members :
                 /\ Exists(fs, dst \o Rel(src, f))
                 /\ fs[dst \o Rel(src, f)].kind = "file"
            /\ Cardinality(PlainFilesUnder(fs, dst)) = Cardinality(members)
            /\ \A r \in RelsUnder(orig, src) :
                 (src \o r) \notin members =>
                    /\ Exists(fs, dst \o r)
                    /\ fs[dst \o r] = IF orig[src \o r].kind = "dir"
                                      THEN Dir ELSE Link(src \o r)
            /\ DirsUnder(fs, dst) = DirsUnder(orig, src)

-----------------------------------------------------------------------------
(* Order of the steps of a run *)

MirrorOps     == {"Lstat", "MkdirAll", "Symlink"}
InstrumentOps == {"instrumentFile", "Remove", "OpenFile", "Fprint", "Close",
                  "instrumentPackage"}

\* the stage a step belongs to when the mirror is built before the package
\* is resolved: Init, SandboxCreated, Resolved, Instrumented, Executed
StageClaimed(op) ==
    CASE op \in {"TempDir", "Mkdir"} -> 0
      [] op \in MirrorOps            -> 1
      [] op = "parsePackage"         -> 2
      [] op \in InstrumentOps        -> 3
      [] op = "go test"              -> 4
      [] OTHER                       -> 5

\* the stage a step belongs to when the package is resolved first
StageResolvedFirst(op) ==
    CASE op \in {"TempDir", "Mkdir"} -> 0
      [] op = "parsePackage"         -> 1
      [] op \in MirrorOps            -> 2
      [] op \in InstrumentOps        -> 3
      [] op = "go test"              -> 4
      [] OTHER                       -> 5

\* some step before step i of the run is one of ops
Before(i, ops) == \E j \in 1..(i - 1) : trace[j].op \in ops

\* C13 as stated: the steps of a run come in the order Init, SandboxCreated,
\* Resolved, Instrumented, Executed: the mirror is built before the package
\* is resolved and parsed, and the package is resolved before any file is
\* instrumented.
C13_MirrorThenResolve ==
    /\ \A i, j \in DOMAIN trace :
         i < j => StageClaimed(trace[i].op) <= StageClaimed(trace[j].op)
    /\ \A i \in DOMAIN trace :
         trace[i].op = "parsePackage" => Before(i, MirrorOps)

\* C13 as amended: the steps come in the order Init, Resolved,
\* SandboxCreated, Instrumented, Executed: the package is resolved and
\* parsed before the mirror is built, the mirror is attempted before any
\* file is instrumented, and the tests run after instrumentPackage returned.
C13_ResolveThenMirror ==
    /\ \A i, j \in DOMAIN trace :
         i < j => StageResolvedFirst(trace[i].op) <= StageResolvedFirst(trace[j].op)
    /\ \A i \in DOMAIN trace :
         /\ trace[i].op \in MirrorOps => HappenedAt("parsePackage", PkgDir(pkgpath), "ok")
         /\ trace[i].op = "instrumentFile" => Before(i, MirrorOps)
         /\ trace[i].op = "go test" => Before(i, {"instrumentPackage"})

\* C13 witness: a run that went through every stage
C13_Witness ==
    /\ pc = "done"
    /\ Happened("parsePackage", "ok")
    /\ Happened("Symlink", "ok")
    /\ Happened("Close", "ok")
    /\ Happened("go test", "ok")

-----------------------------------------------------------------------------
(* The result code *)

\* a step of the pipeline (the deferred removal apart) has failed
StepFailed ==
    \E i \in DOMAIN trace : trace[i].op # "RemoveAll" /\ trace[i].res # "ok"

\* C14: instrumentAndTest returns 0 exactly when the test runner was started
\* and exited successfully; it returns a non-zero code when the test runner
\* does not start or fails, and when any earlier step fails.
C14_ResultCode ==
    pc = "done" =>
        /\ rc = 0 <=> Happened("go test", "ok")
        /\ StepFailed => rc # 0

\* C15: the deferred removal of the temporary root does not change the
\* result of the run: the code is set before the removal is attempted and
\* is the same after it, whether the removal succeeds or fails.
C15_CleanupKeepsResult ==
    [][pc = "cleanup" => (rc \in {0, 1} /\ rc' = rc)]_vars

\* C15 witness: a successful run whose temporary root could not be removed
C15_Witness ==
    /\ pc = "done"
    /\ HappenedAt("RemoveAll", tempDir, "err")
    /\ Happened("go test", "ok")
    /\ rc = 0

-----------------------------------------------------------------------------
(* No step after a failure, no step twice *)

\* the member files written into the sandbox completely
WrittenFiles ==
    {f \in PkgFiles(orig, pkgpath) :
        /\ HappenedAt("Fprint", SandboxPath(f), "ok")
        /\ HappenedAt("Close", SandboxPath(f), "ok")}

\* C16: the test runner is started at most once, and only after every
\* member file has been instrumented and written into the sandbox; after a
\* step has failed no later step of the pipeline is attempted (the deferred
\* removal apart), and no step is made twice.
C16_NoStepAfterFailure ==
    /\ Cardinality({i \in DOMAIN trace : trace[i].op = "go test"}) <= 1
    /\ HappenedOp("go test") => WrittenFiles = PkgFiles(orig, pkgpath)
    /\ \A i, j \in DOMAIN trace :
         (i < j /\ trace[i].res # "ok") => trace[j].op = "RemoveAll"
    /\ \A i, j \in DOMAIN trace :
         (trace[i].op = trace[j].op /\ trace[i].path = trace[j].path) => i = j

-----------------------------------------------------------------------------
(* Confinement to the temporary root *)

\* the steps that create, link, remove or write a path
WritingOps == {"Mkdir", "MkdirAll", "Symlink", "Remove", "OpenFile", "Fprint",
               "Close"}

\* C17: for every package identifier the resolver accepts, the clone
\* directory lies under the temporary root, and so does every path the run
\* creates, links, removes or writes; nothing outside the temporary root is
\* changed.
C17_ConfinedToTempDir ==
    /\ Happened("parsePackage", "ok") => IsPrefix(tempDir, CloneDir(pkgpath))
    /\ \A i \in DOMAIN trace :
         trace[i].op \in WritingOps => IsPrefix(tempDir, trace[i].path)
    /\ \A p \in DOMAIN fs \cup DOMAIN orig :
         ~IsPrefix(tempDir, p) =>
            /\ p \in DOMAIN fs /\ p \in DOMAIN orig
            /\ fs[p] = orig[p]

====
